---- MODULE Spec2Model ----
(***************************************************************************)
(* Task Manager backend: the task hierarchy (routes/tasks.js and the       *)
(* save hooks of models/task.js) and the per-project access guard          *)
(* (middleware/auth.js, routes/projects.js), as a state machine over the   *)
(* document store.                                                         *)
(*                                                                         *)
(* An ObjectId reaches a handler as a 24-digit hexadecimal string.  The    *)
(* driver parses either letter case to the same id, and id.toString()      *)
(* always prints lower case, so one id has several spellings.  A request   *)
(* string is the pair <<id, spelling>>: Cast parses it, IdToString prints an *)
(* id, and JavaScript's === on two strings is equality of the pairs.       *)
(***************************************************************************)
EXTENDS Integers, Sequences, FiniteSets

\* ---------------------------------------------------------------- bounds
MaxTasks == 3
MaxProjects == 2
MaxShares == 2
MaxComments == 2
AccMaxTasks == 1
MaxCreated == 1
ComMaxTasks == 2
MaxDay == 2

\* ------------------------------------------------------------ vocabulary
Users == {"u1", "u2", "u3"}
ProjectIds == 1..MaxProjects
TaskIds == 1..MaxTasks
Statuses == {"To Do", "In Progress", "Done"}
Roles == {"Owner", "Editor", "Viewer"}
Spellings == {"lc", "uc"}

Str(id, sp) == <<id, sp>>
NoStr == <<0, "lc">>
Cast(s) == s[1]
IdToString(id) == <<id, "lc">>
TaskStrings == {Str(i, sp) : i \in TaskIds, sp \in Spellings}
CanonTaskStrings == {IdToString(i) : i \in TaskIds}
UserStrings == {Str(u, sp) : u \in Users, sp \in Spellings}
\* A text is the sequence of its characters.
Contents == {<<"n">>}
Texts == {<<"n">>, <<" ">>, <<" ", "n", " ">>}
Names == {"plan"}
\* A date string 'YYYY-MM-DD' is the number of its day; a Date is an instant,
\* a day and an hour of that day in UTC.
Days == 1..MaxDay
Hours == {0, 12}
Instants == [day : Days, hour : Hours]
\* An optional field is a sequence of no or one value.
DueDates == {<< >>} \cup {<<d>> : d \in Instants}
Descriptions == {<< >>, <<<<"B">>>>}
DayParams == {<< >>} \cup {<<d>> : d \in Days}
StatusParams == {"", "To Do", "Done"}
SearchParams == {<< >>, <<"a">>, <<"b">>}

NoTask == [live |-> FALSE, project |-> 0, parentTask |-> 0, status |-> "To Do",
           order |-> 0, comments |-> << >>, name |-> <<"a">>, description |-> << >>,
           dueDate |-> << >>]
NoProject == [live |-> FALSE, name |-> "", description |-> "", owner |-> "u1",
              sharedWith |-> << >>]
IdleReq == [pc |-> "idle", caller |-> "u1", role |-> "none", pid |-> 0, tid |-> NoStr,
            par |-> NoStr, cur |-> 0, stack |-> << >>, user |-> NoStr,
            share |-> "none", len |-> 0]
NoLast == [op |-> "none", caller |-> "u1", pid |-> 0, tid |-> NoStr, par |-> NoStr,
           st |-> "none", res |-> "none", role |-> "none", old |-> 0, removed |-> {},
           user |-> NoStr, ids |-> << >>, roles |-> << >>, text |-> << >>,
           query |-> [status |-> "", startDate |-> << >>, endDate |-> << >>,
                      search |-> << >>, parentTaskId |-> NoStr],
           result |-> << >>, order |-> << >>]
\* req.query without parameters, and the filters of a page just opened.
NoQuery == NoLast.query
NoFilters == [status |-> "", startDate |-> << >>, endDate |-> << >>, search |-> << >>]
NoView == [tasks |-> << >>, filters |-> NoFilters, filteredTasks |-> << >>,
           crashed |-> FALSE]

VARIABLES
  projects,     \* the projects collection: id -> document
  nextProject,  \* the next fresh project id
  tasks,        \* the tasks collection: id -> document
  nextTask,     \* the next fresh task id
  reqs,         \* the in-flight PATCH requests of the interleaved runs
  last,         \* the request handled last and its response
  view          \* the project page: fetched tasks, filters, filtered tasks

vars == <<projects, nextProject, tasks, nextTask, reqs, last, view>>

\* ------------------------------------------------------------- the store
\* Task.findById(id): null for a null id and for an id no document has.
Found(ts, id) == id \in TaskIds /\ ts[id].live

\* Task.findOne({_id: id, project: pid})
FoundIn(ts, id, pid) == Found(ts, id) /\ ts[id].project = pid

\* Task.find({parentTask: id})
SubTasks(ts, id) == {c \in DOMAIN ts : ts[c].live /\ ts[c].parentTask = id}

\* ------------------------------------------------------ models/task.js
\* post('save'): the status a parent takes from its sub-tasks.
ComputeStatus(ts, p) ==
  LET subTasks == SubTasks(ts, p)
      completedSubTasks == Cardinality({c \in subTasks : ts[c].status = "Done"})
      totalSubTasks == Cardinality(subTasks)
  IN IF completedSubTasks = totalSubTasks THEN "Done"
     ELSE IF completedSubTasks > 0 THEN "In Progress"
     ELSE "To Do"

\* A walk over more documents than the collection holds has entered a cycle
\* and never ends.
WalkFuel == MaxTasks + 1

\* post('save') of document id: recompute the parent, save it, and so on up.
\* done = FALSE: the chain of saves never ends (the request never answers);
\* ts is then the store after WalkFuel recomputations.
RECURSIVE PostSave(_, _, _)
PostSave(ts, id, fuel) ==
  LET p == ts[id].parentTask IN
  IF ~Found(ts, p) THEN [ts |-> ts, done |-> TRUE]
  ELSE IF SubTasks(ts, p) = {} THEN [ts |-> ts, done |-> TRUE]
  ELSE LET saved == [ts EXCEPT ![p].status = ComputeStatus(ts, p)] IN
       IF fuel = 0 THEN [ts |-> saved, done |-> FALSE]
       ELSE PostSave(saved, p, fuel - 1)

\* pre('save') of a document with a new parentTask: the walk from the parent
\* to the root, looking for the document itself.
RECURSIVE PreSaveWalk(_, _, _, _)
PreSaveWalk(ts, cur, id, fuel) ==
  IF ~Found(ts, cur) THEN "ok"
  ELSE IF cur = id THEN "throw"
  ELSE IF fuel = 0 THEN "hang"
  ELSE PreSaveWalk(ts, ts[cur].parentTask, id, fuel - 1)

PreSave(ts, id, pid, parent) ==
  IF parent = 0 THEN "ok"
  ELSE IF ~FoundIn(ts, parent, pid) THEN "throw"
  ELSE PreSaveWalk(ts, parent, id, WalkFuel)

\* -------------------------------------------------- middleware/auth.js
RoleHierarchy(r) == CASE r = "Owner" -> 3 [] r = "Editor" -> 2 [] r = "Viewer" -> 1

\* project.sharedWith.find(share => share.user.toString() === userId.toString()):
\* the index of the first entry of the user, 0 when there is none.
RECURSIVE FindShare(_, _, _)
FindShare(sharedWith, user, i) ==
  IF i > Len(sharedWith) THEN 0
  ELSE IF sharedWith[i].user = user THEN i
  ELSE FindShare(sharedWith, user, i + 1)

\* A guard that looks the user up in sharedWith before it looks at the owner.
ProjectRoleSharesFirst(project, user) ==
  LET i == FindShare(project.sharedWith, user, 1) IN
  IF i # 0 THEN project.sharedWith[i].role
  ELSE IF project.owner = user THEN "Owner" ELSE "none"

\* The role the guard resolves: "none" when the user has no access.
ProjectRole(project, user) ==
  IF project.owner = user THEN "Owner"
  ELSE LET i == FindShare(project.sharedWith, user, 1) IN
       IF i = 0 THEN "none" ELSE project.sharedWith[i].role

\* A guard without the comparison of ranks: any shared user passes.
CheckProjectAccessAnyRole(ps, pid, user, requiredRole) ==
  IF ~(pid \in ProjectIds /\ ps[pid].live)
    THEN [res |-> "404 Project not found", role |-> "none"]
  ELSE LET role == ProjectRole(ps[pid], user) IN
    IF role = "none" THEN [res |-> "403 Access denied", role |-> "none"]
    ELSE [res |-> "next", role |-> role]

\* checkProjectAccess(requiredRole): res = "next" lets the handler run with
\* req.projectRole = role.
CheckProjectAccess(ps, pid, user, requiredRole) ==
  IF ~(pid \in ProjectIds /\ ps[pid].live)
    THEN [res |-> "404 Project not found", role |-> "none"]
  ELSE LET role == ProjectRole(ps[pid], user) IN
    IF role = "Owner" /\ ps[pid].owner = user THEN [res |-> "next", role |-> "Owner"]
    ELSE IF role = "none" THEN [res |-> "403 Access denied", role |-> "none"]
    ELSE IF RoleHierarchy(role) < RoleHierarchy(requiredRole)
      THEN [res |-> "403 Insufficient permissions", role |-> "none"]
    ELSE [res |-> "next", role |-> role]

\* The answer of the guard to a request it stops: the handler never runs.
Refused(op, caller, pid, res) ==
  [NoLast EXCEPT !.op = op, !.caller = caller, !.pid = pid, !.res = res]

\* A routing table that asks for Viewer everywhere.
RouteRoleViewer(op) == "Viewer"

\* The role each route hands to checkProjectAccess.
RouteRole(op) ==
  CASE op \in {"createTask", "updateTask", "deleteTask", "reorderTasks", "updateProject"}
         -> "Editor"
    [] op \in {"listTasks", "getTask", "addComment", "getProject"} -> "Viewer"
    [] op \in {"deleteProject", "shareProject", "unshareProject"} -> "Owner"

\* ----------------------------------------------------- routes/tasks.js
\* A handler without its own look-up of the parent, which leaves the test to
\* pre('save').
CreateTaskBodyHookOnly(ts, nt, pid, par, st, ord) ==
  LET parent == Cast(par)
      doc == [live |-> TRUE, project |-> pid, parentTask |-> parent,
              status |-> IF st = "none" THEN "To Do" ELSE st,
              order |-> IF ord = << >> THEN 0 ELSE ord[1], comments |-> << >>,
              name |-> <<"a">>, description |-> << >>, dueDate |-> << >>]
      pre == PreSave(ts, nt, pid, parent)
  IN IF pre = "throw" THEN [tasks |-> ts, nextTask |-> nt, res |-> "500"]
     ELSE IF pre = "hang" THEN [tasks |-> ts, nextTask |-> nt, res |-> "hang"]
     ELSE LET post == PostSave([ts EXCEPT ![nt] = doc], nt, WalkFuel) IN
       [tasks |-> post.ts, nextTask |-> nt + 1,
        res |-> IF post.done THEN "201" ELSE "hang"]

\* POST /:projectId/tasks after the guard.
CreateTaskBody(ts, nt, pid, par, st, ord) ==
  LET parent == Cast(par)
      id == nt
      doc == [live |-> TRUE, project |-> pid, parentTask |-> parent,
              status |-> IF st = "none" THEN "To Do" ELSE st,
              order |-> IF ord = << >> THEN 0 ELSE ord[1], comments |-> << >>,
              name |-> <<"a">>, description |-> << >>, dueDate |-> << >>]
  IN IF par # NoStr /\ ~FoundIn(ts, parent, pid)
       THEN [tasks |-> ts, nextTask |-> nt, res |-> "400 Parent task not found"]
     ELSE LET pre == PreSave(ts, id, pid, parent) IN
       IF pre = "throw" THEN [tasks |-> ts, nextTask |-> nt, res |-> "500"]
       ELSE IF pre = "hang" THEN [tasks |-> ts, nextTask |-> nt, res |-> "hang"]
       ELSE LET post == PostSave([ts EXCEPT ![id] = doc], id, WalkFuel) IN
         [tasks |-> post.ts, nextTask |-> nt + 1,
          res |-> IF post.done THEN "201" ELSE "hang"]

CreateTask(caller, pid, par, st, ord) ==
  /\ nextTask <= MaxTasks
  /\ \E g \in {CheckProjectAccess(projects, pid, caller, RouteRole("createTask"))} :
     \E o \in {IF g.res = "next" THEN CreateTaskBody(tasks, nextTask, pid, par, st, ord)
              ELSE [tasks |-> tasks, nextTask |-> nextTask, res |-> g.res]} :
        /\ tasks' = o.tasks
        /\ nextTask' = o.nextTask
        /\ last' = IF g.res # "next" THEN Refused("createTask", caller, pid, g.res)
                   ELSE [NoLast EXCEPT !.op = "createTask", !.caller = caller,
                           !.pid = pid,
                           !.tid = IF o.nextTask # nextTask THEN IdToString(nextTask)
                                   ELSE NoStr,
                           !.par = par, !.st = st, !.res = o.res, !.role = g.role,
                           !.order = ord]
  /\ UNCHANGED <<view, projects, nextProject, reqs>>

\* The walk of the PATCH handler from the new parent to the root.
RECURSIVE DescendantWalk(_, _, _, _)
DescendantWalk(ts, cur, taskId, fuel) ==
  IF ~Found(ts, cur) THEN "ok"
  ELSE IF ts[cur].parentTask # 0 /\ IdToString(ts[cur].parentTask) = taskId THEN "descendant"
  ELSE IF fuel = 0 THEN "hang"
  ELSE DescendantWalk(ts, ts[cur].parentTask, taskId, fuel - 1)

\* Checks that look the new parent up by its id alone, in any project.
ParentCheckAnyProject(ts, pid, taskId, par) ==
  LET task == ts[Cast(taskId)]
      current == IF task.parentTask = 0 THEN NoStr ELSE IdToString(task.parentTask)
  IN IF par = NoStr \/ par = current THEN "ok"
     ELSE IF ~Found(ts, Cast(par)) THEN "400 Parent task not found"
     ELSE IF par = taskId THEN "400 Task cannot be its own parent"
     ELSE LET w == DescendantWalk(ts, Cast(par), taskId, WalkFuel) IN
       IF w = "descendant" THEN "400 Cannot move task to its own descendant"
       ELSE w

\* The checks of PATCH /:projectId/tasks/:taskId on the new parent.
ParentCheck(ts, pid, taskId, par) ==
  LET task == ts[Cast(taskId)]
      current == IF task.parentTask = 0 THEN NoStr ELSE IdToString(task.parentTask)
  IN IF par = NoStr \/ par = current THEN "ok"
     ELSE IF ~FoundIn(ts, Cast(par), pid) THEN "400 Parent task not found"
     ELSE IF par = taskId THEN "400 Task cannot be its own parent"
     ELSE LET w == DescendantWalk(ts, Cast(par), taskId, WalkFuel) IN
       IF w = "descendant" THEN "400 Cannot move task to its own descendant"
       ELSE w

\* Task.findByIdAndUpdate(taskId, {$set: updateData}): no save hook runs.
FindByIdAndUpdate(ts, id, par, st) ==
  IF ~Found(ts, id) THEN ts
  ELSE [ts EXCEPT ![id].parentTask = IF par = NoStr THEN @ ELSE Cast(par),
                  ![id].status = IF st = "none" THEN @ ELSE st]

\* PATCH /:projectId/tasks/:taskId after the guard.
UpdateTaskBody(ts, pid, taskId, par, st) ==
  IF ~FoundIn(ts, Cast(taskId), pid) THEN [tasks |-> ts, res |-> "404 Task not found"]
  ELSE LET c == ParentCheck(ts, pid, taskId, par) IN
    IF c # "ok" THEN [tasks |-> ts, res |-> c]
    ELSE [tasks |-> FindByIdAndUpdate(ts, Cast(taskId), par, st), res |-> "200"]

UpdateTask(caller, pid, taskId, par, st) ==
  \E g \in {CheckProjectAccess(projects, pid, caller, RouteRole("updateTask"))} :
  \E o \in {IF g.res = "next" THEN UpdateTaskBody(tasks, pid, taskId, par, st)
           ELSE [tasks |-> tasks, res |-> g.res]} :
     /\ tasks' = o.tasks
     /\ last' = IF g.res # "next" THEN Refused("updateTask", caller, pid, g.res)
                ELSE [NoLast EXCEPT !.op = "updateTask", !.caller = caller, !.pid = pid,
                        !.tid = taskId, !.par = par, !.st = st, !.res = o.res,
                        !.role = g.role,
                        !.old = IF Found(tasks, Cast(taskId))
                                THEN tasks[Cast(taskId)].parentTask ELSE 0]
     /\ UNCHANGED <<view, projects, nextProject, nextTask, reqs>>

\* A delete that removes the task and its direct sub-tasks only, as the
\* pre('remove') hook would.
DeleteTaskAndChildrenOnly(ts, id, fuel) ==
  [ts |-> [t \in TaskIds |-> IF t = id \/ ts[t].parentTask = id THEN NoTask ELSE ts[t]],
   done |-> TRUE]

\* deleteTaskAndSubtasks(taskId): the sub-tasks first, in the order find()
\* returns them, then the task.  done = FALSE: the recursion never ends.
RECURSIVE DeleteTaskAndSubtasks(_, _, _), DeleteEach(_, _, _, _)
DeleteTaskAndSubtasks(ts, id, fuel) ==
  IF ~Found(ts, id) THEN [ts |-> ts, done |-> TRUE]
  ELSE IF fuel = 0 THEN [ts |-> ts, done |-> FALSE]
  ELSE LET r == DeleteEach(ts, SubTasks(ts, id), 1, fuel - 1) IN
       IF ~r.done THEN r ELSE [ts |-> [r.ts EXCEPT ![id] = NoTask], done |-> TRUE]

DeleteEach(ts, subtasks, c, fuel) ==
  IF c > MaxTasks THEN [ts |-> ts, done |-> TRUE]
  ELSE IF c \notin subtasks THEN DeleteEach(ts, subtasks, c + 1, fuel)
  ELSE LET r == DeleteTaskAndSubtasks(ts, c, fuel) IN
       IF ~r.done THEN r ELSE DeleteEach(r.ts, subtasks, c + 1, fuel)

\* DELETE /:projectId/tasks/:taskId after the guard.
DeleteTaskBody(ts, pid, taskId) ==
  IF ~FoundIn(ts, Cast(taskId), pid) THEN [tasks |-> ts, res |-> "404 Task not found"]
  ELSE LET r == DeleteTaskAndSubtasks(ts, Cast(taskId), WalkFuel) IN
       [tasks |-> r.ts, res |-> IF r.done THEN "204" ELSE "hang"]

DeleteTask(caller, pid, taskId) ==
  \E g \in {CheckProjectAccess(projects, pid, caller, RouteRole("deleteTask"))} :
  \E o \in {IF g.res = "next" THEN DeleteTaskBody(tasks, pid, taskId)
           ELSE [tasks |-> tasks, res |-> g.res]} :
     /\ tasks' = o.tasks
     /\ last' = IF g.res # "next" THEN Refused("deleteTask", caller, pid, g.res)
                ELSE [NoLast EXCEPT !.op = "deleteTask", !.caller = caller, !.pid = pid,
                        !.tid = taskId, !.res = o.res, !.role = g.role,
                        !.removed = {t \in TaskIds : tasks[t].live /\ ~o.tasks[t].live}]
     /\ UNCHANGED <<view, projects, nextProject, nextTask, reqs>>

\* ------------------------------------------------------- specifications
\* The hierarchy of one project, p1 of u1 shared with u2 as Editor, under
\* requests of u2 that leave every status at its default.
TreeInit ==
  /\ projects = [p \in ProjectIds |->
                   IF p = 1 THEN [live |-> TRUE, name |-> "plan", description |-> "",
                                  owner |-> "u1",
                                  sharedWith |-> <<[user |-> "u2", role |-> "Editor"]>>]
                   ELSE NoProject]
  /\ nextProject = 2
  /\ tasks = [t \in TaskIds |-> NoTask]
  /\ nextTask = 1
  /\ reqs = [r \in {1, 2} |-> IdleReq]
  /\ view = NoView
  /\ last = NoLast

TreeNext ==
  \/ \E par \in {NoStr} \cup CanonTaskStrings : CreateTask("u2", 1, par, "none", << >>)
  \/ \E t \in TaskStrings, par \in TaskStrings : UpdateTask("u2", 1, t, par, "none")
  \/ \E t \in CanonTaskStrings : DeleteTask("u2", 1, t)

Spec == TreeInit /\ [][TreeNext]_vars

\* The same project under requests that spell every id as the server prints
\* it, and that set statuses.
StatusNext ==
  \/ \E par \in {NoStr} \cup CanonTaskStrings, st \in {"none", "In Progress", "Done"} :
       CreateTask("u2", 1, par, st, << >>)
  \/ \E t \in CanonTaskStrings, st \in Statuses : UpdateTask("u2", 1, t, NoStr, st)
  \/ \E t \in CanonTaskStrings, par \in CanonTaskStrings : UpdateTask("u2", 1, t, par, "none")
  \/ \E t \in CanonTaskStrings : DeleteTask("u2", 1, t)

SpecStatus == TreeInit /\ [][StatusNext]_vars

\* ------------------------------------------------ GET /:projectId/tasks
\* new Date('YYYY-MM-DD'): midnight UTC of that day.
NewDate(day) == [day |-> day, hour |-> 0]

\* a <= b on Dates, as $gte and $lte compare them.
Lte(a, b) == a.day < b.day \/ (a.day = b.day /\ a.hour <= b.hour)

ToLower(c) == IF c = "A" THEN "a" ELSE IF c = "B" THEN "b" ELSE c

RECURSIVE ToLowerCase(_)
ToLowerCase(s) == IF s = << >> THEN << >> ELSE <<ToLower(Head(s))>> \o ToLowerCase(Tail(s))

\* String.prototype.includes
Includes(s, sub) == \E i \in 0..(Len(s) - Len(sub)) : SubSeq(s, i + 1, i + Len(sub)) = sub

\* {$regex: pattern, $options: 'i'} on an optional string field, for a
\* pattern of letters; a document without the field does not match.
RegexI(field, pattern) ==
  field # << >> /\ Includes(ToLowerCase(field[1]), ToLowerCase(pattern))

\* Whether a document satisfies the query object built from req.query.
QueryMatches(doc, pid, q) ==
  /\ doc.live /\ doc.project = pid
  /\ q.status # "" => doc.status = q.status
  /\ (q.startDate # << >> \/ q.endDate # << >>) =>
        /\ doc.dueDate # << >>
        /\ q.startDate # << >> => Lte(NewDate(q.startDate[1]), doc.dueDate[1])
        /\ q.endDate # << >> => Lte(doc.dueDate[1], NewDate(q.endDate[1]))
  /\ q.parentTaskId # NoStr =>
        doc.parentTask = (IF q.parentTaskId[2] = "null" THEN 0 ELSE Cast(q.parentTaskId))
  /\ q.search # << >> => RegexI(<<doc.name>>, q.search) \/ RegexI(doc.description, q.search)

\* .sort({order: 1}): ascending order; documents of equal order in id order.
RECURSIVE SortByOrder(_, _)
SortByOrder(ts, ids) ==
  IF ids = {} THEN << >>
  ELSE LET m == CHOOSE i \in ids : \A j \in ids :
                  ts[i].order < ts[j].order \/ (ts[i].order = ts[j].order /\ i <= j)
       IN <<m>> \o SortByOrder(ts, ids \ {m})

\* The set of ids as a sequence in id order, the order of insertion.
RECURSIVE InIdOrder(_)
InIdOrder(ids) ==
  IF ids = {} THEN << >>
  ELSE LET m == CHOOSE i \in ids : \A j \in ids : i <= j
       IN <<m>> \o InIdOrder(ids \ {m})

\* .populate({path: 'subTasks', populate: [..., {path: 'subTasks', ...}]}):
\* the levels of subTasks that are populated below a found task.
PopulateDepth == 2

\* A task in the JSON response: the fields that the project page reads, and
\* the virtual subTasks, filled from Task.find({parentTask: _id}) down to the
\* given depth and left out (shown empty here) below it.
RECURSIVE TaskJsonTo(_, _, _)
TaskJsonTo(ts, i, depth) ==
  LET RECURSIVE Each(_)
      Each(ids) == IF ids = << >> THEN << >>
                   ELSE <<TaskJsonTo(ts, Head(ids), depth - 1)>> \o Each(Tail(ids))
  IN [id |-> i, status |-> ts[i].status, name |-> ts[i].name,
      description |-> ts[i].description, dueDate |-> ts[i].dueDate,
      subTasks |-> IF depth = 0 THEN << >> ELSE Each(InIdOrder(SubTasks(ts, i)))]

TaskJson(ts, i) == TaskJsonTo(ts, i, PopulateDepth)

RECURSIVE Jsons(_, _)
Jsons(ts, ids) ==
  IF ids = << >> THEN << >> ELSE <<TaskJson(ts, Head(ids))>> \o Jsons(ts, Tail(ids))

\* Task.find(query).sort(...), then the filter that keeps the root tasks.
ListTasksBody(ts, pid, q) ==
  LET found == SortByOrder(ts, {i \in DOMAIN ts : QueryMatches(ts[i], pid, q)})
      rootTasks == SelectSeq(found, LAMBDA i : ts[i].parentTask = 0)
  IN Jsons(ts, rootTasks)

ListTasks(caller, pid, q) ==
  \E g \in {CheckProjectAccess(projects, pid, caller, RouteRole("listTasks"))} :
     /\ last' = IF g.res # "next" THEN Refused("listTasks", caller, pid, g.res)
                ELSE [NoLast EXCEPT !.op = "listTasks", !.caller = caller, !.pid = pid,
                        !.res = "200", !.role = g.role, !.query = q,
                        !.result = ListTasksBody(tasks, pid, q)]
     /\ UNCHANGED <<view, projects, nextProject, tasks, nextTask, reqs>>

\* ------------------------------------------- pages/ProjectDetails.tsx
\* toDateString: new Date(date).toISOString().slice(0, 10), the UTC day.
ToDateString(date) == date.day

\* The callback of tasks.filter for one task: what it returns, or "throw"
\* where task.description.toLowerCase() is called on undefined.
FilterCallback(task, f) ==
  IF f.status # "" /\ task.status # f.status THEN "false"
  ELSE IF /\ f.startDate # << >> /\ task.dueDate # << >>
          /\ ToDateString(task.dueDate[1]) < f.startDate[1] THEN "false"
  ELSE IF /\ f.endDate # << >> /\ task.dueDate # << >>
          /\ ToDateString(task.dueDate[1]) > f.endDate[1] THEN "false"
  ELSE IF f.search = << >> THEN "true"
  ELSE IF task.description = << >> THEN "throw"
  ELSE IF \/ Includes(ToLowerCase(task.name), ToLowerCase(f.search))
          \/ Includes(ToLowerCase(task.description[1]), ToLowerCase(f.search))
       THEN "true"
  ELSE "false"

\* (tasks ?? []).filter(callback): the tasks kept, unless the callback throws.
FilteredTasks(list, f) ==
  IF \E k \in 1..Len(list) : FilterCallback(list[k], f) = "throw"
    THEN [threw |-> TRUE, list |-> << >>]
  ELSE [threw |-> FALSE, list |-> SelectSeq(list, LAMBDA t : FilterCallback(t, f) = "true")]

\* The effect on [filters, tasks]: setFilteredTasks, or an error thrown in
\* the effect, which takes the page down.
RunEffect(v) ==
  LET r == FilteredTasks(v.tasks, v.filters)
  IN IF r.threw THEN [v EXCEPT !.crashed = TRUE] ELSE [v EXCEPT !.filteredTasks = r.list]

\* useQuery(['tasks', projectId]): the page fetches the tasks with no query
\* parameter, and the effect runs on the new data.
FetchTasks(caller, pid) ==
  /\ ~view.crashed
  /\ CheckProjectAccess(projects, pid, caller, RouteRole("listTasks")).res = "next"
  /\ view' = RunEffect([view EXCEPT !.tasks = ListTasksBody(tasks, pid, NoQuery)])
  /\ UNCHANGED <<projects, nextProject, tasks, nextTask, reqs, last>>

\* Apply Filters and Clear: setFilters, and the effect runs on the new filters.
SetFilters(f) ==
  /\ ~view.crashed
  /\ view' = RunEffect([view EXCEPT !.filters = f])
  /\ UNCHANGED <<projects, nextProject, tasks, nextTask, reqs, last>>

\* normalizeStatus: lower case, the first blank replaced by an underscore.
NormalizeStatus(status) ==
  CASE status = "To Do" -> "to_do"
    [] status = "In Progress" -> "in_progress"
    [] status = "Done" -> "done"
    [] OTHER -> status

\* The status prop of the three TaskList columns.
Columns == {"to_do", "in_progress", "done"}

\* The tasks prop of a column.
ColumnTasks(v, c) == SelectSeq(v.filteredTasks, LAMBDA t : NormalizeStatus(t.status) = c)

\* The routes of the tasks router, as method and path pattern below the
\* mount point; "id" stands for a route parameter. The router is mounted at
\* /api/projects and at /api/tasks.
TaskRoutes ==
  {<<"POST", <<"id", "tasks">>>>, <<"GET", <<"id", "tasks">>>>,
   <<"GET", <<"id", "tasks", "id">>>>, <<"PATCH", <<"id", "tasks", "id">>>>,
   <<"POST", <<"id", "tasks", "id", "comments">>>>,
   <<"DELETE", <<"id", "tasks", "id">>>>, <<"POST", <<"id", "tasks", "reorder">>>>,
   <<"GET", <<"recent">>>>, <<"GET", << >>>>}

\* Whether a request below the mount point reaches a route of the router;
\* a parameter matches any segment, a word matches itself.
MatchRoute(method, path) ==
  \E r \in TaskRoutes :
     /\ r[1] = method /\ Len(r[2]) = Len(path)
     /\ \A k \in 1..Len(path) : r[2][k] = "id" \/ r[2][k] = path[k]

\* A task card dropped on a column: onDrop(item.id, status, tasks.length),
\* then axios.patch(`/api/tasks/${taskId}`, {status, order}). The path below
\* /api/tasks is the task id alone, which no PATCH route matches, so the
\* server answers 404 before any handler; the tasks query is invalidated on
\* success only.
DropTask(caller, k, c) ==
  /\ ~view.crashed
  /\ k \in 1..Len(view.filteredTasks)
  /\ ~MatchRoute("PATCH", <<"id">>)
  /\ last' = [NoLast EXCEPT !.op = "dropTask", !.caller = caller,
                 !.tid = IdToString(view.filteredTasks[k].id), !.st = c,
                 !.order = <<Len(ColumnTasks(view, c))>>, !.res = "404"]
  /\ UNCHANGED <<view, projects, nextProject, tasks, nextTask, reqs>>

\* String.prototype.trim, as body('content').trim() applies it.
RECURSIVE TrimStart(_), TrimEnd(_)
TrimStart(text) ==
  IF text # << >> /\ Head(text) = " " THEN TrimStart(Tail(text)) ELSE text

TrimEnd(text) ==
  IF text # << >> /\ text[Len(text)] = " "
    THEN TrimEnd(SubSeq(text, 1, Len(text) - 1)) ELSE text

Trim(text) == TrimEnd(TrimStart(text))

\* A handler that stores the text as it was sent.
AddCommentBodyVerbatim(ts, pid, taskId, user, content) ==
  IF ~FoundIn(ts, Cast(taskId), pid) THEN [tasks |-> ts, res |-> "404 Task not found"]
  ELSE LET pushed == [ts EXCEPT ![Cast(taskId)].comments =
                        Append(@, [user |-> user, content |-> content])]
           post == PostSave(pushed, Cast(taskId), WalkFuel)
       IN [tasks |-> post.ts, res |-> IF post.done THEN "200" ELSE "hang"]

\* POST /:projectId/tasks/:taskId/comments after the guard: the validators
\* trim the text and refuse an empty one; task.save() runs both save hooks,
\* and pre('save') does nothing as parentTask is unmodified.
AddCommentBody(ts, pid, taskId, user, content) ==
  IF Trim(content) = << >> THEN [tasks |-> ts, res |-> "400 Comment content is required"]
  ELSE IF ~FoundIn(ts, Cast(taskId), pid)
    THEN [tasks |-> ts, res |-> "404 Task not found"]
  ELSE LET pushed == [ts EXCEPT ![Cast(taskId)].comments =
                        Append(@, [user |-> user, content |-> Trim(content)])]
           post == PostSave(pushed, Cast(taskId), WalkFuel)
       IN [tasks |-> post.ts, res |-> IF post.done THEN "200" ELSE "hang"]

\* The comments in the store.
StoredComments(ts) ==
  UNION {{<<t, i>> : i \in 1..Len(ts[t].comments)} : t \in TaskIds}

AddComment(caller, pid, taskId, content) ==
  /\ Cardinality(StoredComments(tasks)) < MaxComments
  /\ \E g \in {CheckProjectAccess(projects, pid, caller, RouteRole("addComment"))} :
     \E o \in {IF g.res = "next" THEN AddCommentBody(tasks, pid, taskId, caller, content)
              ELSE [tasks |-> tasks, res |-> g.res]} :
       /\ tasks' = o.tasks
       /\ last' = IF g.res # "next" THEN Refused("addComment", caller, pid, g.res)
                  ELSE [NoLast EXCEPT !.op = "addComment", !.caller = caller, !.pid = pid,
                          !.tid = taskId, !.text = content, !.res = o.res,
                          !.role = g.role]
  /\ UNCHANGED <<view, projects, nextProject, nextTask, reqs>>

\* Task.find({_id: {$in: taskIds}, project}): the documents matched.
Matched(ts, pid, taskIds) ==
  {t \in TaskIds : FoundIn(ts, t, pid) /\ \E i \in 1..Len(taskIds) : Cast(taskIds[i]) = t}

\* The index (from 0) a task is given: its updates run in the order of taskIds.
RECURSIVE SetOrders(_, _, _)
SetOrders(ts, taskIds, i) ==
  IF i > Len(taskIds) THEN ts
  ELSE SetOrders(IF Found(ts, Cast(taskIds[i]))
                 THEN [ts EXCEPT ![Cast(taskIds[i])].order = i - 1] ELSE ts,
                 taskIds, i + 1)

\* A handler that writes the orders without comparing the two lengths.
ReorderTasksBodyUnchecked(ts, pid, taskIds) ==
  [tasks |-> SetOrders(ts, taskIds, 1), res |-> "200"]

\* POST /:projectId/tasks/reorder after the guard.
ReorderTasksBody(ts, pid, taskIds) ==
  IF Cardinality(Matched(ts, pid, taskIds)) # Len(taskIds)
    THEN [tasks |-> ts, res |-> "400 Some tasks do not belong to this project"]
  ELSE [tasks |-> SetOrders(ts, taskIds, 1), res |-> "200"]

ReorderTasks(caller, pid, taskIds) ==
  \E g \in {CheckProjectAccess(projects, pid, caller, RouteRole("reorderTasks"))} :
  \E o \in {IF g.res = "next" THEN ReorderTasksBody(tasks, pid, taskIds)
           ELSE [tasks |-> tasks, res |-> g.res]} :
     /\ tasks' = o.tasks
     /\ last' = IF g.res # "next" THEN Refused("reorderTasks", caller, pid, g.res)
                ELSE [NoLast EXCEPT !.op = "reorderTasks", !.caller = caller, !.pid = pid,
                        !.ids = taskIds, !.res = o.res, !.role = g.role]
     /\ UNCHANGED <<view, projects, nextProject, nextTask, reqs>>

\* -------------------------------------------------- routes/projects.js
\* Project.find({$or: [{owner}, {'sharedWith.user': user}]})
ListedProjects(ps, user) ==
  {p \in ProjectIds : ps[p].live /\
     (ps[p].owner = user \/ FindShare(ps[p].sharedWith, user, 1) # 0)}

\* projectObj.userRole of a listed project.
UserRole(project, user) ==
  IF project.owner = user THEN "Owner"
  ELSE project.sharedWith[FindShare(project.sharedWith, user, 1)].role

\* GET /: the projects of the caller, each with the caller's role.
ListProjects(caller) ==
  /\ last' = [NoLast EXCEPT !.op = "listProjects", !.caller = caller, !.res = "200",
                !.roles = [p \in ListedProjects(projects, caller) |->
                             UserRole(projects[p], caller)]]
  /\ UNCHANGED <<view, projects, nextProject, tasks, nextTask, reqs>>

\* POST /: Project.create({...req.body, owner: req.user._id, sharedWith: []})
CreateProject(caller, name) ==
  /\ nextProject <= MaxProjects
  /\ projects' = [projects EXCEPT ![nextProject] =
                    [live |-> TRUE, name |-> name, description |-> "", owner |-> caller,
                     sharedWith |-> << >>]]
  /\ nextProject' = nextProject + 1
  /\ last' = [NoLast EXCEPT !.op = "createProject", !.caller = caller,
                !.pid = nextProject, !.res = "201", !.role = "Owner"]
  /\ UNCHANGED <<view, tasks, nextTask, reqs>>

\* DELETE /:projectId: Project.findByIdAndDelete, and nothing else.
DeleteProject(caller, pid) ==
  \E g \in {CheckProjectAccess(projects, pid, caller, RouteRole("deleteProject"))} :
     /\ projects' = IF g.res = "next" THEN [projects EXCEPT ![pid] = NoProject]
                    ELSE projects
     /\ last' = IF g.res # "next" THEN Refused("deleteProject", caller, pid, g.res)
                ELSE [NoLast EXCEPT !.op = "deleteProject", !.caller = caller,
                        !.pid = pid, !.res = "204", !.role = g.role]
     /\ UNCHANGED <<view, nextProject, tasks, nextTask, reqs>>

\* project.sharedWith.findIndex(share => share.user.toString() === userId)
RECURSIVE FindShareIndex(_, _, _)
FindShareIndex(sharedWith, userId, i) ==
  IF i > Len(sharedWith) THEN 0
  ELSE IF IdToString(sharedWith[i].user) = userId THEN i
  ELSE FindShareIndex(sharedWith, userId, i + 1)

\* POST /:projectId/share after the guard.
ShareProjectBody(project, caller, userId, role) ==
  IF Cast(userId) \notin Users THEN [project |-> project, res |-> "404 User not found"]
  ELSE IF userId = IdToString(caller)
    THEN [project |-> project, res |-> "400 Cannot share project with yourself"]
  ELSE LET i == FindShareIndex(project.sharedWith, userId, 1) IN
    [project |-> [project EXCEPT !.sharedWith =
                    IF i # 0 THEN [@ EXCEPT ![i].role = role]
                    ELSE Append(@, [user |-> Cast(userId), role |-> role])],
     res |-> "200"]

ShareProject(caller, pid, userId, role) ==
  \E g \in {CheckProjectAccess(projects, pid, caller, RouteRole("shareProject"))} :
  \E o \in {IF g.res = "next" THEN ShareProjectBody(projects[pid], caller, userId, role)
           ELSE [project |-> NoProject, res |-> g.res]} :
     /\ Len(o.project.sharedWith) <= MaxShares
     /\ projects' = IF g.res = "next" THEN [projects EXCEPT ![pid] = o.project]
                    ELSE projects
     /\ last' = IF g.res # "next" THEN Refused("shareProject", caller, pid, g.res)
                ELSE [NoLast EXCEPT !.op = "shareProject", !.caller = caller,
                        !.pid = pid, !.user = userId, !.st = role, !.res = o.res,
                        !.role = g.role]
     /\ UNCHANGED <<view, nextProject, tasks, nextTask, reqs>>

\* project.sharedWith.filter(share => share.user.toString() !== userId)
RemoveShares(sharedWith, userId) ==
  LET Keep(share) == IdToString(share.user) # userId IN SelectSeq(sharedWith, Keep)

\* DELETE /:projectId/share/:userId
UnshareProject(caller, pid, userId) ==
  \E g \in {CheckProjectAccess(projects, pid, caller, RouteRole("unshareProject"))} :
     /\ projects' = IF g.res = "next"
                    THEN [projects EXCEPT ![pid].sharedWith = RemoveShares(@, userId)]
                    ELSE projects
     /\ last' = IF g.res # "next" THEN Refused("unshareProject", caller, pid, g.res)
                ELSE [NoLast EXCEPT !.op = "unshareProject", !.caller = caller,
                        !.pid = pid, !.user = userId, !.res = "204", !.role = g.role]
     /\ UNCHANGED <<view, nextProject, tasks, nextTask, reqs>>

\* ---------------------------------------- PATCH, one store access a step
\* The PATCH handler suspends at every await; between two of them another
\* request may run.  A request r goes idle -> parent -> walk -> write -> idle,
\* and reqs[r].cur is the id its next Task.findById reads.

\* Task.findOne of the task (guard passed), and the test that a new parent
\* was asked for.
PatchStart(r, caller, pid, taskId, par) ==
  /\ reqs[r].pc = "idle"
  /\ par # NoStr
  /\ CheckProjectAccess(projects, pid, caller, RouteRole("updateTask")).res = "next"
  /\ FoundIn(tasks, Cast(taskId), pid)
  /\ reqs' = [reqs EXCEPT ![r] =
       [pc |-> IF tasks[Cast(taskId)].parentTask # 0
                  /\ par = IdToString(tasks[Cast(taskId)].parentTask)
               THEN "write" ELSE "parent",
        caller |-> caller,
        role |-> CheckProjectAccess(projects, pid, caller, RouteRole("updateTask")).role,
        pid |-> pid, tid |-> taskId, par |-> par, cur |-> 0, stack |-> << >>,
        user |-> NoStr, share |-> "none", len |-> 0]]
  /\ UNCHANGED <<view, projects, nextProject, tasks, nextTask, last>>

\* Task.findOne of the new parent, and the test for the task itself.
PatchFindParent(r) ==
  /\ reqs[r].pc = "parent"
  /\ \E bad \in {IF ~FoundIn(tasks, Cast(reqs[r].par), reqs[r].pid)
                   THEN "400 Parent task not found"
                 ELSE IF reqs[r].par = reqs[r].tid THEN "400 Task cannot be its own parent"
                 ELSE "ok"} :
       /\ reqs' = [reqs EXCEPT ![r] =
            IF bad = "ok" THEN [@ EXCEPT !.pc = "walk", !.cur = Cast(reqs[r].par)]
            ELSE IdleReq]
       /\ last' = IF bad = "ok" THEN last
                  ELSE [NoLast EXCEPT !.op = "updateTask", !.caller = reqs[r].caller,
                          !.pid = reqs[r].pid,
                          !.tid = reqs[r].tid, !.par = reqs[r].par, !.res = bad,
                          !.role = reqs[r].role]
  /\ UNCHANGED <<view, projects, nextProject, tasks, nextTask>>

\* One Task.findById of the walk and the test on the document it returned.
PatchWalk(r) ==
  /\ reqs[r].pc = "walk"
  /\ \E w \in {IF ~Found(tasks, reqs[r].cur) THEN "end"
               ELSE IF tasks[reqs[r].cur].parentTask # 0
                       /\ IdToString(tasks[reqs[r].cur].parentTask) = reqs[r].tid
                 THEN "descendant"
               ELSE "on"} :
       /\ reqs' = [reqs EXCEPT ![r] =
            IF w = "end" THEN [@ EXCEPT !.pc = "write", !.cur = 0]
            ELSE IF w = "on" THEN [@ EXCEPT !.cur = tasks[reqs[r].cur].parentTask]
            ELSE IdleReq]
       /\ last' = IF w = "descendant"
                  THEN [NoLast EXCEPT !.op = "updateTask", !.caller = reqs[r].caller,
                          !.pid = reqs[r].pid,
                          !.tid = reqs[r].tid, !.par = reqs[r].par,
                          !.res = "400 Cannot move task to its own descendant",
                          !.role = reqs[r].role]
                  ELSE last
  /\ UNCHANGED <<view, projects, nextProject, tasks, nextTask>>

\* Task.findByIdAndUpdate and the answer.
PatchWrite(r) ==
  /\ reqs[r].pc = "write"
  /\ tasks' = FindByIdAndUpdate(tasks, Cast(reqs[r].tid), reqs[r].par, "none")
  /\ reqs' = [reqs EXCEPT ![r] = IdleReq]
  /\ last' = [NoLast EXCEPT !.op = "updateTask", !.caller = reqs[r].caller,
                !.pid = reqs[r].pid,
                !.tid = reqs[r].tid, !.par = reqs[r].par, !.res = "200",
                !.role = reqs[r].role,
                !.old = IF Found(tasks, Cast(reqs[r].tid))
                        THEN tasks[Cast(reqs[r].tid)].parentTask ELSE 0]
  /\ UNCHANGED <<view, projects, nextProject, nextTask>>

\* ------------------------------- POST and DELETE, one store access a step
\* POST: the handler's Task.findOne of the parent (guard passed).  A request
\* r goes idle -> presave -> prewalk -> insert -> idle.
PostStart(r, caller, pid, par) ==
  /\ reqs[r].pc = "idle"
  /\ nextTask <= MaxTasks
  /\ CheckProjectAccess(projects, pid, caller, RouteRole("createTask")).res = "next"
  /\ \E found \in {par = NoStr \/ FoundIn(tasks, Cast(par), pid)} :
       /\ reqs' = [reqs EXCEPT ![r] =
            IF ~found THEN IdleReq
            ELSE [IdleReq EXCEPT
                    !.pc = IF par = NoStr THEN "insert" ELSE "presave",
                    !.caller = caller, !.pid = pid, !.par = par,
                    !.role = CheckProjectAccess(projects, pid, caller,
                                                RouteRole("createTask")).role]]
       /\ last' = IF found THEN last
                  ELSE [NoLast EXCEPT !.op = "createTask", !.caller = caller, !.pid = pid,
                          !.par = par, !.res = "400 Parent task not found",
                          !.role = CheckProjectAccess(projects, pid, caller,
                                                      RouteRole("createTask")).role]
  /\ UNCHANGED <<view, projects, nextProject, tasks, nextTask>>

\* pre('save'): findOne of the parent in the project.
PostPreSave(r) ==
  /\ reqs[r].pc = "presave"
  /\ \E found \in {FoundIn(tasks, Cast(reqs[r].par), reqs[r].pid)} :
       /\ reqs' = [reqs EXCEPT ![r] =
            IF found THEN [@ EXCEPT !.pc = "prewalk",
                                    !.cur = tasks[Cast(reqs[r].par)].parentTask]
            ELSE IdleReq]
       /\ last' = IF found THEN last
                  ELSE [NoLast EXCEPT !.op = "createTask", !.caller = reqs[r].caller,
                          !.pid = reqs[r].pid, !.par = reqs[r].par, !.res = "500",
                          !.role = reqs[r].role]
  /\ UNCHANGED <<view, projects, nextProject, tasks, nextTask>>

\* pre('save'): one findById of the walk to the root; the new document is in
\* no chain yet, so the walk ends where findById returns null.
PostPreWalk(r) ==
  /\ reqs[r].pc = "prewalk"
  /\ reqs' = [reqs EXCEPT ![r] =
       IF ~Found(tasks, reqs[r].cur) THEN [@ EXCEPT !.pc = "insert", !.cur = 0]
       ELSE [@ EXCEPT !.cur = tasks[reqs[r].cur].parentTask]]
  /\ UNCHANGED <<view, projects, nextProject, tasks, nextTask, last>>

\* The insert of Task.create, post('save') and the answer.
PostInsert(r) ==
  /\ reqs[r].pc = "insert"
  /\ nextTask <= MaxTasks
  /\ \E post \in {PostSave([tasks EXCEPT ![nextTask] =
                      [NoTask EXCEPT !.live = TRUE, !.project = reqs[r].pid,
                                     !.parentTask = Cast(reqs[r].par)]],
                    nextTask, WalkFuel)} :
       /\ tasks' = post.ts
       /\ last' = [NoLast EXCEPT !.op = "createTask", !.caller = reqs[r].caller,
                      !.pid = reqs[r].pid, !.tid = IdToString(nextTask),
                      !.par = reqs[r].par,
                      !.res = IF post.done THEN "201" ELSE "hang",
                      !.role = reqs[r].role]
  /\ nextTask' = nextTask + 1
  /\ reqs' = [reqs EXCEPT ![r] = IdleReq]
  /\ UNCHANGED <<view, projects, nextProject>>

\* The calls of deleteTaskAndSubtasks in progress, innermost first: each
\* with its taskId, the sub-tasks its loop has yet to visit, and whether its
\* next store access is findById, find or findByIdAndDelete.
Resume(stack) ==
  IF stack = << >> THEN << >>
  ELSE IF Head(stack).pending = << >>
    THEN <<[Head(stack) EXCEPT !.phase = "delete"]>> \o Tail(stack)
  ELSE <<[id |-> Head(Head(stack).pending), phase |-> "findById", pending |-> << >>],
         [Head(stack) EXCEPT !.pending = Tail(@)]>> \o Tail(stack)

\* DELETE: Task.findOne of the task (guard passed).
DeleteStart(r, caller, pid, taskId) ==
  /\ reqs[r].pc = "idle"
  /\ CheckProjectAccess(projects, pid, caller, RouteRole("deleteTask")).res = "next"
  /\ \E found \in {FoundIn(tasks, Cast(taskId), pid)} :
       /\ reqs' = [reqs EXCEPT ![r] =
            IF ~found THEN IdleReq
            ELSE [IdleReq EXCEPT
                    !.pc = "delete", !.caller = caller, !.pid = pid, !.tid = taskId,
                    !.role = CheckProjectAccess(projects, pid, caller,
                                                RouteRole("deleteTask")).role,
                    !.stack = <<[id |-> Cast(taskId), phase |-> "findById",
                                 pending |-> << >>]>>]]
       /\ last' = IF found THEN last
                  ELSE [NoLast EXCEPT !.op = "deleteTask", !.caller = caller, !.pid = pid,
                          !.tid = taskId, !.res = "404 Task not found",
                          !.role = CheckProjectAccess(projects, pid, caller,
                                                      RouteRole("deleteTask")).role]
  /\ UNCHANGED <<view, projects, nextProject, tasks, nextTask>>

\* One store access of deleteTaskAndSubtasks, and the 204 when the outermost
\* call returns.
DeleteStep(r) ==
  /\ reqs[r].pc = "delete"
  /\ \E top \in {Head(reqs[r].stack)} :
     \E stack \in {IF top.phase = "findById"
                     THEN IF Found(tasks, top.id)
                            THEN <<[top EXCEPT !.phase = "find"]>> \o Tail(reqs[r].stack)
                          ELSE Resume(Tail(reqs[r].stack))
                   ELSE IF top.phase = "find"
                     THEN Resume(<<[top EXCEPT !.pending = InIdOrder(SubTasks(tasks, top.id))]>>
                                 \o Tail(reqs[r].stack))
                   ELSE Resume(Tail(reqs[r].stack))} :
       /\ tasks' = IF top.phase = "delete" THEN [tasks EXCEPT ![top.id] = NoTask]
                   ELSE tasks
       /\ reqs' = [reqs EXCEPT ![r] =
                     IF stack = << >> THEN IdleReq ELSE [@ EXCEPT !.stack = stack]]
       /\ last' = IF stack # << >> THEN last
                  ELSE [NoLast EXCEPT !.op = "deleteTask", !.caller = reqs[r].caller,
                          !.pid = reqs[r].pid, !.tid = reqs[r].tid, !.res = "204",
                          !.role = reqs[r].role]
  /\ UNCHANGED <<view, projects, nextProject, nextTask>>

\* ------------------------------------- share, one store access a step
\* POST share up to the save (guard passed): User.findById, the test for the
\* caller, Project.findById, findIndex and the change of the document in
\* memory.  The request keeps the index found (0: none, an entry is pushed)
\* and the length of sharedWith it read.
ShareStart(r, caller, pid, userId, role) ==
  /\ reqs[r].pc = "idle"
  /\ CheckProjectAccess(projects, pid, caller, RouteRole("shareProject")).res = "next"
  /\ \E bad \in {IF Cast(userId) \notin Users THEN "404 User not found"
                 ELSE IF userId = IdToString(caller)
                   THEN "400 Cannot share project with yourself"
                 ELSE "ok"} :
       /\ reqs' = [reqs EXCEPT ![r] =
            IF bad # "ok" THEN IdleReq
            ELSE [IdleReq EXCEPT
                    !.pc = "save", !.caller = caller, !.pid = pid, !.user = userId,
                    !.share = role,
                    !.role = CheckProjectAccess(projects, pid, caller,
                                                RouteRole("shareProject")).role,
                    !.cur = FindShareIndex(projects[pid].sharedWith, userId, 1),
                    !.len = Len(projects[pid].sharedWith)]]
       /\ last' = IF bad = "ok" THEN last
                  ELSE [NoLast EXCEPT !.op = "shareProject", !.caller = caller,
                          !.pid = pid, !.user = userId, !.st = role, !.res = bad,
                          !.role = CheckProjectAccess(projects, pid, caller,
                                                      RouteRole("shareProject")).role]
  /\ UNCHANGED <<view, projects, nextProject, tasks, nextTask>>

\* project.save(): Mongoose sends the changes made to the document, not the
\* document.  A pushed entry goes as $push onto the stored array, whatever
\* it holds by then; a changed role goes as $set of sharedWith.<index>.role
\* under the condition that the version read is still the stored one, which
\* every $push increments, so it fails (VersionError, answered 500) when the
\* stored array has grown since the read.
ShareSave(r) ==
  /\ reqs[r].pc = "save"
  /\ \E stored \in {projects[reqs[r].pid].sharedWith} :
     \E res \in {IF reqs[r].cur # 0 /\ Len(stored) # reqs[r].len THEN "500" ELSE "200"} :
       /\ reqs[r].cur = 0 => Len(stored) < MaxShares
       /\ projects' = [projects EXCEPT ![reqs[r].pid].sharedWith =
            IF reqs[r].cur = 0
              THEN Append(stored, [user |-> Cast(reqs[r].user), role |-> reqs[r].share])
            ELSE IF res = "200" THEN [stored EXCEPT ![reqs[r].cur].role = reqs[r].share]
            ELSE stored]
       /\ last' = [NoLast EXCEPT !.op = "shareProject", !.caller = reqs[r].caller,
                      !.pid = reqs[r].pid, !.user = reqs[r].user, !.st = reqs[r].share,
                      !.res = res, !.role = reqs[r].role]
  /\ reqs' = [reqs EXCEPT ![r] = IdleReq]
  /\ UNCHANGED <<view, nextProject, tasks, nextTask>>

\* Two PATCH requests of u2 on p1 in flight at once, every id spelled as the
\* server prints it; tasks are created between their steps.
RaceNext ==
  \/ \E par \in {NoStr} \cup CanonTaskStrings : CreateTask("u2", 1, par, "none", << >>)
  \/ \E r \in {1, 2}, t \in CanonTaskStrings, par \in CanonTaskStrings :
       PatchStart(r, "u2", 1, t, par)
  \/ \E r \in {1, 2} : PatchFindParent(r)
  \/ \E r \in {1, 2} : PatchWalk(r)
  \/ \E r \in {1, 2} : PatchWrite(r)

SpecRace == TreeInit /\ [][RaceNext]_vars

\* Project p1 of u1, shared with nobody yet, under the requests of all three
\* users: u1 owns it, u2 is given and denied each role in turn, u3 is never
\* shared with; every task route runs on up to AccMaxTasks root tasks.
AccessInit ==
  /\ projects = [p \in ProjectIds |->
                   IF p = 1 THEN [live |-> TRUE, name |-> "plan", description |-> "",
                                  owner |-> "u1", sharedWith |-> << >>]
                   ELSE NoProject]
  /\ nextProject = 2
  /\ tasks = [t \in TaskIds |-> NoTask]
  /\ nextTask = 1
  /\ reqs = [r \in {1, 2} |-> IdleReq]
  /\ view = NoView
  /\ last = NoLast

\* Sharing alone: the owner's and the shared users' requests on p1.
ShareNext ==
  \/ \E c \in Users, u \in UserStrings, role \in Roles : ShareProject(c, 1, u, role)
  \/ \E c \in Users, u \in UserStrings : UnshareProject(c, 1, u)
  \/ \E c \in Users : DeleteProject(c, 1)
  \/ \E c \in Users : ListProjects(c)

SpecShare == AccessInit /\ [][ShareNext]_vars

\* From the empty store: any user creates a project, and whoever passes the
\* guard shares and unshares it.
EmptyInit ==
  /\ projects = [p \in ProjectIds |-> NoProject]
  /\ nextProject = 1
  /\ tasks = [t \in TaskIds |-> NoTask]
  /\ nextTask = 1
  /\ reqs = [r \in {1, 2} |-> IdleReq]
  /\ view = NoView
  /\ last = NoLast

ProjectsNext ==
  \/ \E c \in Users, n \in Names : nextProject <= MaxCreated /\ CreateProject(c, n)
  \/ \E c \in Users, p \in 1..MaxCreated, u \in UserStrings, role \in Roles :
       ShareProject(c, p, u, role)
  \/ \E c \in Users, p \in 1..MaxCreated, u \in UserStrings : UnshareProject(c, p, u)

SpecProjects == EmptyInit /\ [][ProjectsNext]_vars

\* Two projects of u1, and u1's createTask and updateTask requests on both,
\* each naming any task of the store as parent.
CrossInit ==
  /\ projects = [p \in ProjectIds |->
                   IF p \in {1, 2}
                     THEN [live |-> TRUE, name |-> "plan", description |-> "",
                           owner |-> "u1", sharedWith |-> << >>]
                   ELSE NoProject]
  /\ nextProject = 3
  /\ tasks = [t \in TaskIds |-> NoTask]
  /\ nextTask = 1
  /\ reqs = [r \in {1, 2} |-> IdleReq]
  /\ view = NoView
  /\ last = NoLast

CrossNext ==
  \/ \E p \in {1, 2}, par \in {NoStr} \cup CanonTaskStrings :
       CreateTask("u1", p, par, "none", << >>)
  \/ \E p \in {1, 2}, t \in CanonTaskStrings, par \in CanonTaskStrings :
       UpdateTask("u1", p, t, par, "none")

SpecCross == CrossInit /\ [][CrossNext]_vars

\* req.body.taskIds: the lists of at most two ids, in either spelling, naming
\* tasks that exist or not, with and without repetition.
TaskIdLists ==
  {<< >>} \cup {<<a>> : a \in TaskStrings} \cup {<<a, b>> : a, b \in TaskStrings}

\* Two projects of u1 with root tasks, and u1's reorder requests on both.
OrderNext ==
  \/ \E p \in {1, 2} : CreateTask("u1", p, NoStr, "none", << >>)
  \/ \E p \in {1, 2}, ids \in TaskIdLists : ReorderTasks("u1", p, ids)

SpecOrder == CrossInit /\ [][OrderNext]_vars

\* Project p1 of u1 with u2 as Editor: comments of both users on up to
\* ComMaxTasks tasks, between the other task requests.
ComTaskStrings == {IdToString(t) : t \in 1..ComMaxTasks}

CommentNext ==
  \/ \E par \in {NoStr} \cup ComTaskStrings :
       nextTask <= ComMaxTasks /\ CreateTask("u2", 1, par, "none", << >>)
  \/ \E c \in {"u1", "u2"}, t \in ComTaskStrings, text \in Texts :
       AddComment(c, 1, t, text)
  \/ \E t, par \in ComTaskStrings : UpdateTask("u2", 1, t, par, "none")
  \/ \E t \in ComTaskStrings : ReorderTasks("u2", 1, <<t>>)
  \/ \E t \in ComTaskStrings : DeleteTask("u2", 1, t)

SpecComment == TreeInit /\ [][CommentNext]_vars

\* Project 1 of u1 with two root tasks: the first with any status, due date
\* and description that createTask accepts, the second without a due date.
FilterDocs ==
  {[NoTask EXCEPT !.live = TRUE, !.project = 1, !.status = st, !.dueDate = d,
                  !.description = ds] :
     st \in {"To Do", "Done"}, d \in DueDates, ds \in Descriptions}
FilterInit ==
  /\ projects = [p \in ProjectIds |->
                   IF p = 1 THEN [NoProject EXCEPT !.live = TRUE, !.name = "plan"]
                   ELSE NoProject]
  /\ nextProject = 2
  /\ \E d1 \in FilterDocs, d2 \in {d \in FilterDocs : d.dueDate = << >>} :
        tasks = [t \in TaskIds |-> IF t = 1 THEN d1 ELSE IF t = 2 THEN d2 ELSE NoTask]
  /\ nextTask = 3
  /\ reqs = [r \in {1, 2} |-> IdleReq]
  /\ last = NoLast
  /\ view = NoView

Queries ==
  {[NoQuery EXCEPT !.status = st, !.startDate = sd, !.endDate = ed, !.search = se] :
     st \in StatusParams, sd \in DayParams, ed \in DayParams, se \in SearchParams}
Filters ==
  [status : StatusParams, startDate : DayParams, endDate : DayParams,
   search : SearchParams]

\* The listTasks query on its own.
QueryNext == \E q \in Queries : ListTasks("u1", 1, q)
SpecQuery == FilterInit /\ [][QueryNext]_vars

\* The project page on its own.
FilterNext ==
  \/ FetchTasks("u1", 1)
  \/ \E f \in Filters : SetFilters(f)
SpecFilter == FilterInit /\ [][FilterNext]_vars

\* Project 1 of u1 holding one task more than the other runs, all To Do and
\* each a root or a sub-task of a task created before it: every forest, a
\* chain of all the tasks among them.
DeepIds == 1..(MaxTasks + 1)
ListInit ==
  /\ projects = [p \in ProjectIds |->
                   IF p = 1 THEN [NoProject EXCEPT !.live = TRUE, !.name = "plan"]
                   ELSE NoProject]
  /\ nextProject = 2
  /\ \E parent \in [DeepIds -> 0..MaxTasks] :
        /\ \A i \in DeepIds : parent[i] < i
        /\ tasks = [i \in DeepIds |->
                      [NoTask EXCEPT !.live = TRUE, !.project = 1, !.parentTask = parent[i]]]
  /\ nextTask = MaxTasks + 2
  /\ reqs = [r \in {1, 2} |-> IdleReq]
  /\ last = NoLast
  /\ view = NoView

\* req.query.parentTaskId: absent, the string 'null', or the id of a task.
ParentParams == {NoStr, <<0, "null">>} \cup {Str(i, sp) : i \in DeepIds, sp \in Spellings}

\* listTasks by parent over a hierarchy.
ListNext == \E par \in ParentParams : ListTasks("u1", 1, [NoQuery EXCEPT !.parentTaskId = par])
SpecList == ListInit /\ [][ListNext]_vars

\* req.body.order: absent or an integer.
OrderParams == {<< >>} \cup {<<n>> : n \in 0..MaxTasks}

\* createTask with and without an order.
CreateNext ==
  \E par \in {NoStr} \cup CanonTaskStrings, ord \in OrderParams :
     CreateTask("u2", 1, par, "none", ord)
SpecCreate == TreeInit /\ [][CreateNext]_vars

\* The board: tasks created in any status, the page, and drops.
DropNext ==
  \/ \E st \in Statuses :
       nextTask <= ComMaxTasks /\ CreateTask("u2", 1, NoStr, st, << >>)
  \/ FetchTasks("u2", 1)
  \/ \E k \in 1..ComMaxTasks, c \in Columns : DropTask("u2", k, c)
SpecDrop == TreeInit /\ [][DropNext]_vars

\* Saves on a hierarchy that PATCH requests reshape: createTask and the
\* first addComment save a document, updateTask names the task in either
\* spelling.
WalkNext ==
  \/ \E par \in {NoStr} \cup ComTaskStrings, st \in {"none", "Done"} :
       nextTask <= ComMaxTasks /\ CreateTask("u2", 1, par, st, << >>)
  \/ \E t \in 1..ComMaxTasks, sp \in Spellings, par \in ComTaskStrings :
       UpdateTask("u2", 1, Str(t, sp), par, "none")
  \/ \E t \in ComTaskStrings :
       StoredComments(tasks) = {} /\ AddComment("u2", 1, t, <<"n">>)
SpecWalk == TreeInit /\ [][WalkNext]_vars

\* A POST or a reparenting PATCH of u2 on p1 in flight together with a
\* DELETE, every id spelled as the server prints it, on a hierarchy of up to
\* ComMaxTasks tasks created before.
DeleteRaceNext ==
  \/ \E par \in {NoStr} \cup ComTaskStrings :
       /\ nextTask <= ComMaxTasks /\ \A r \in {1, 2} : reqs[r].pc = "idle"
       /\ CreateTask("u2", 1, par, "none", << >>)
  \/ \E par \in ComTaskStrings : PostStart(1, "u2", 1, par)
  \/ PostPreSave(1)
  \/ PostPreWalk(1)
  \/ PostInsert(1)
  \/ \E t \in ComTaskStrings, par \in ComTaskStrings : PatchStart(1, "u2", 1, t, par)
  \/ PatchFindParent(1)
  \/ PatchWalk(1)
  \/ PatchWrite(1)
  \/ \E t \in ComTaskStrings : DeleteStart(2, "u2", 1, t)
  \/ DeleteStep(2)

SpecDeleteRace == TreeInit /\ [][DeleteRaceNext]_vars

\* Two share requests of the owner on p1 in flight at once, the target
\* spelled as the server prints it.
ShareRaceNext ==
  \/ \E r \in {1, 2}, u \in {"u2", "u3"}, role \in Roles :
       ShareStart(r, "u1", 1, IdToString(u), role)
  \/ \E r \in {1, 2} : ShareSave(r)
SpecShareRace == AccessInit /\ [][ShareRaceNext]_vars

\* Project p1 of u1 with u2 as Editor and u3 as Viewer: u2 builds the
\* hierarchy and sets statuses, u3 comments.
ViewerInit ==
  /\ projects = [p \in ProjectIds |->
                   IF p = 1 THEN [NoProject EXCEPT !.live = TRUE, !.name = "plan",
                                    !.sharedWith = <<[user |-> "u2", role |-> "Editor"],
                                                     [user |-> "u3", role |-> "Viewer"]>>]
                   ELSE NoProject]
  /\ nextProject = 2
  /\ tasks = [t \in TaskIds |-> NoTask]
  /\ nextTask = 1
  /\ reqs = [r \in {1, 2} |-> IdleReq]
  /\ last = NoLast
  /\ view = NoView

ViewerNext ==
  \/ \E par \in {NoStr} \cup ComTaskStrings :
       nextTask <= ComMaxTasks /\ CreateTask("u2", 1, par, "none", << >>)
  \/ \E t \in ComTaskStrings, st \in Statuses : UpdateTask("u2", 1, t, NoStr, st)
  \/ \E t \in ComTaskStrings : AddComment("u3", 1, t, <<"n">>)
SpecViewer == ViewerInit /\ [][ViewerNext]_vars

AccTaskStrings == {IdToString(t) : t \in 1..AccMaxTasks}

AccessNext ==
  \/ \E c \in Users, role \in Roles : ShareProject(c, 1, IdToString("u2"), role)
  \/ \E c \in Users : UnshareProject(c, 1, IdToString("u2"))
  \/ \E c \in Users : DeleteProject(c, 1)
  \/ \E c \in Users, ord \in {<< >>, <<1>>} :
       nextTask <= AccMaxTasks /\ CreateTask(c, 1, NoStr, "none", ord)
  \/ \E c \in Users, t \in AccTaskStrings : UpdateTask(c, 1, t, NoStr, "Done")
  \/ \E c \in Users, t \in AccTaskStrings : DeleteTask(c, 1, t)
  \/ \E c \in Users, t \in AccTaskStrings : ReorderTasks(c, 1, <<t>>)
  \/ \E c \in Users : ListTasks(c, 1, NoQuery)
  \/ \E c \in Users, t \in AccTaskStrings, text \in Contents : AddComment(c, 1, t, text)

SpecAccess == AccessInit /\ [][AccessNext]_vars

\* ------------------------------------------------------------ properties
\* Following parentTask from document `from`, at most n documents, meets `to`.
RECURSIVE ReachesUp(_, _, _, _)
ReachesUp(ts, from, to, n) ==
  /\ n > 0
  /\ Found(ts, from)
  /\ (from = to \/ ReachesUp(ts, ts[from].parentTask, to, n - 1))

\* The direct and transitive descendants of t.
Descendants(ts, t) ==
  {d \in TaskIds : Found(ts, d) /\ d # t /\ ReachesUp(ts, ts[d].parentTask, t, MaxTasks)}

\* C1: in every state reached by createTask, updateTask and deleteTask run one
\* after the other, no task is its own ancestor.
C1_Acyclic ==
  \A t \in TaskIds : tasks[t].live => ~ReachesUp(tasks, tasks[t].parentTask, t, MaxTasks)

\* C3: an updateTask whose parentTaskId names the task itself or one of its
\* descendants is answered with an error and changes no task.
C3_CycleRejected ==
  [][(/\ last'.op = "updateTask"
      /\ last'.role # "none"
      /\ FoundIn(tasks, Cast(last'.tid), last'.pid)
      /\ last'.par # NoStr
      /\ Cast(last'.par) \in {Cast(last'.tid)} \cup Descendants(tasks, Cast(last'.tid)))
     => (last'.res \in {"400 Task cannot be its own parent",
                        "400 Cannot move task to its own descendant"}
         /\ tasks' = tasks)]_vars

\* C4: after a deleteTask answered 204, the task and every task that was its
\* descendant are gone, and no task left names one of them as its parent.
C4_CascadeDelete ==
  [][(last'.op = "deleteTask" /\ last'.res = "204")
     => LET gone == {Cast(last'.tid)} \cup Descendants(tasks, Cast(last'.tid)) IN
        /\ \A d \in gone : ~Found(tasks', d)
        /\ \A r \in TaskIds : Found(tasks', r) => tasks'[r].parentTask \notin gone]_vars

\* A delete that removed a task with its sub-task and that one's sub-task.
C4_Witness ==
  /\ last.op = "deleteTask"
  /\ last.res = "204"
  /\ Cardinality(last.removed) = 3
\* The roll-up rule as the specification words it.
RollUpRule(ts, p) ==
  IF \A c \in SubTasks(ts, p) : ts[c].status = "Done" THEN "Done"
  ELSE IF \E c \in SubTasks(ts, p) : ts[c].status \in {"Done", "In Progress"}
    THEN "In Progress"
  ELSE "To Do"

\* Document x and its ancestors.
Chain(ts, x) == {a \in TaskIds : ReachesUp(ts, x, a, MaxTasks)}

\* C5: after every completed createTask and every completed updateTask that
\* sets a status, every task with a sub-task has the status the roll-up rule
\* gives it.
C5_RollUpInvariant ==
  (\/ last.op = "createTask" /\ last.res = "201"
   \/ last.op = "updateTask" /\ last.res = "200" /\ last.st # "none")
  => \A p \in TaskIds :
       (Found(tasks, p) /\ SubTasks(tasks, p) # {})
         => tasks[p].status = RollUpRule(tasks, p)

\* C6: the status roll-up gives the parent of a saved task is Done when all its
\* sub-tasks are Done, In Progress when one is Done or In Progress, else To Do.
C6_RollUpStatus ==
  (last.op = "createTask" /\ last.res = "201" /\ last.par # NoStr)
  => tasks[Cast(last.par)].status = RollUpRule(tasks, Cast(last.par))

\* C7: after an updateTask that moved a task from one parent to another, the
\* old parent, the new parent and their ancestors have the status roll-up
\* gives them, under the rule as specified or as coded.
C7_ReparentRollsUp ==
  (/\ last.op = "updateTask" /\ last.res = "200"
   /\ last.par # NoStr /\ last.old # 0 /\ Cast(last.par) # last.old)
  => \A x \in Chain(tasks, last.old) \cup Chain(tasks, Cast(last.par)) :
       SubTasks(tasks, x) # {}
         => tasks[x].status \in {RollUpRule(tasks, x), ComputeStatus(tasks, x)}

\* C2: while two reparenting updateTask requests interleave at their store
\* accesses, no task is among the ancestors of its own parent.
C2_RaceAcyclic ==
  \A t \in TaskIds :
    Found(tasks, t) => t \notin Chain(tasks, tasks[t].parentTask)

\* ------------------------------------------------------------ access
Rank(r) == CASE r = "Owner" -> 3 [] r = "Editor" -> 2 [] r = "Viewer" -> 1 [] OTHER -> 0

\* The role a user holds on a project: Owner for the owner, else the role of
\* the user's entry in sharedWith (the first one if there are several), else
\* "none".
HeldRole(ps, pid, u) ==
  LET sw == ps[pid].sharedWith
      Mine == {i \in 1..Len(sw) : sw[i].user = u}
  IN IF ps[pid].owner = u THEN "Owner"
     ELSE IF Mine = {} THEN "none"
     ELSE sw[CHOOSE i \in Mine : \A j \in Mine : i <= j].role

StoreUnchanged ==
  /\ projects' = projects
  /\ tasks' = tasks
  /\ nextTask' = nextTask

\* C8: on every project and for every user, the guard resolves Owner for the
\* owner whatever sharedWith holds, the role stored in the user's sharedWith
\* entry for any other user who has one, and no access for a user without an
\* entry; the role a passing request is handed, and the role the list of
\* projects shows, are that role.
C8_ResolveRole ==
  /\ \A p \in ProjectIds, u \in Users :
       projects[p].live =>
         /\ ProjectRole(projects[p], u) = HeldRole(projects, p, u)
         /\ LET g == CheckProjectAccess(projects, p, u, "Viewer") IN
            IF HeldRole(projects, p, u) = "none" THEN g.res = "403 Access denied"
            ELSE g.res = "next" /\ g.role = HeldRole(projects, p, u)
  /\ last.op = "listProjects" =>
       /\ DOMAIN last.roles =
            {p \in ProjectIds : projects[p].live /\ HeldRole(projects, p, last.caller) # "none"}
       /\ \A p \in DOMAIN last.roles : last.roles[p] = HeldRole(projects, p, last.caller)

\* The owner sits in sharedWith as a Viewer and lists the project as its Owner,
\* a second user holds a stored role, a third has no entry.
C8_Witness ==
  /\ projects[1].live
  /\ \E i \in 1..Len(projects[1].sharedWith) :
       /\ projects[1].sharedWith[i].user = projects[1].owner
       /\ projects[1].sharedWith[i].role = "Viewer"
  /\ \E u \in Users : u # projects[1].owner /\ HeldRole(projects, 1, u) = "Editor"
  /\ \E u \in Users : HeldRole(projects, 1, u) = "none"
  /\ last.op = "listProjects" /\ last.caller = projects[1].owner
  /\ 1 \in DOMAIN last.roles /\ last.roles[1] = "Owner"

\* C9: a request on an existing project by a caller without access is answered
\* 403 Access denied, one by a caller whose role ranks below the route's
\* minimum role is answered 403 Insufficient permissions, and both leave the
\* store as it was; any other caller reaches the handler, which is handed the
\* caller's role.
C9_Authorize ==
  [][ (last'.op \in {"createTask", "updateTask", "deleteTask", "reorderTasks",
                     "listTasks", "addComment", "deleteProject", "shareProject",
                     "unshareProject"}
       /\ projects[last'.pid].live) =>
      LET held == HeldRole(projects, last'.pid, last'.caller) IN
      IF held = "none" THEN last'.res = "403 Access denied" /\ StoreUnchanged
      ELSE IF Rank(held) < Rank(RouteRole(last'.op))
        THEN last'.res = "403 Insufficient permissions" /\ StoreUnchanged
      ELSE /\ last'.res \notin {"403 Access denied", "403 Insufficient permissions",
                                "404 Project not found"}
           /\ last'.role = held ]_vars

\* A Viewer's updateTask was answered 403 Insufficient permissions.
C9_Witness ==
  /\ last.op = "updateTask"
  /\ last.res = "403 Insufficient permissions"
  /\ projects[1].live
  /\ HeldRole(projects, 1, last.caller) = "Viewer"
  /\ \E t \in TaskIds : tasks[t].live

\* C10: a createTask, updateTask, deleteTask or reorderTasks that changes the
\* store comes from an Editor or Owner of the project, a deleteProject,
\* shareProject or unshareProject that changes the store comes from an Owner,
\* and listTasks and addComment succeed only for a caller holding a role.
C10_RoleRequirements ==
  [][ LET held == IF last'.pid \in ProjectIds /\ projects[last'.pid].live
                  THEN HeldRole(projects, last'.pid, last'.caller) ELSE "none"
      IN /\ (last'.op \in {"createTask", "updateTask", "deleteTask", "reorderTasks"}
             /\ ~StoreUnchanged) => held \in {"Editor", "Owner"}
         /\ (last'.op \in {"deleteProject", "shareProject", "unshareProject"}
             /\ ~StoreUnchanged) => held = "Owner"
         /\ (last'.op \in {"listTasks", "addComment"} /\ last'.res = "200")
              => Rank(held) >= 1 ]_vars

\* An Editor's deleteTask has removed a task from the store.
C10_Witness ==
  /\ last.op = "deleteTask"
  /\ last.res = "204"
  /\ projects[1].live
  /\ HeldRole(projects, 1, last.caller) = "Editor"
  /\ last.removed # {}

\* ------------------------------------------------------------ sharing
\* C11: no project's sharedWith holds an entry whose user is the project's
\* owner.
C11_OwnerNotShared ==
  \A p \in ProjectIds :
    projects[p].live =>
      \A i \in 1..Len(projects[p].sharedWith) :
        projects[p].sharedWith[i].user # projects[p].owner

\* C12: a shareProject that reaches the handler and whose target user is the
\* project's owner, or the caller, is answered with an error and leaves
\* sharedWith as it was.
C12_ShareWithOwnerOrSelf ==
  [][ (/\ last'.op = "shareProject"
       /\ last'.pid \in ProjectIds
       /\ projects[last'.pid].live
       /\ last'.role # "none"
       /\ Cast(last'.user) \in {projects[last'.pid].owner, last'.caller})
      => /\ last'.res # "200"
         /\ projects'[last'.pid].sharedWith = projects[last'.pid].sharedWith ]_vars

\* The positions of a user's entries in a sharedWith list.
EntriesOf(sharedWith, u) == {i \in 1..Len(sharedWith) : sharedWith[i].user = u}

\* C13: after a shareProject answered 200, sharedWith holds exactly one entry
\* for the target, carrying the given role: an entry the target had is
\* replaced in place, otherwise one entry is appended; the entries of the
\* other users and the project's owner, name and description are unchanged.
C13_ShareUpsert ==
  [][ (last'.op = "shareProject" /\ last'.res = "200") =>
      LET p == last'.pid
          target == Cast(last'.user)
          old == projects[p].sharedWith
          new == projects'[p].sharedWith
      IN /\ Cardinality(EntriesOf(new, target)) = 1
         /\ \A i \in EntriesOf(new, target) : new[i].role = last'.st
         /\ IF EntriesOf(old, target) # {}
              THEN /\ Len(new) = Len(old)
                   /\ EntriesOf(new, target) = EntriesOf(old, target)
                   /\ \A i \in 1..Len(old) : old[i].user # target => new[i] = old[i]
              ELSE new = Append(old, [user |-> target, role |-> last'.st])
         /\ projects'[p].owner = projects[p].owner
         /\ projects'[p].name = projects[p].name
         /\ projects'[p].description = projects[p].description
         /\ projects'[p].live ]_vars

\* C14: after a deleteProject answered 204 no task of that project is left
\* in the store.
C14_DeleteProjectCascade ==
  [][ (last'.op = "deleteProject" /\ last'.res = "204") =>
      \A t \in TaskIds : ~(tasks'[t].live /\ tasks'[t].project = last'.pid) ]_vars

\* ------------------------------------------------------- two projects
\* C15: after every createTask and updateTask each task with a parent has it
\* in its own project, and no task has changed its project.
C15_ParentInSameProject ==
  [][ /\ \A t \in TaskIds :
           (tasks'[t].live /\ tasks'[t].parentTask # 0) =>
              /\ Found(tasks', tasks'[t].parentTask)
              /\ tasks'[tasks'[t].parentTask].project = tasks'[t].project
      /\ \A t \in TaskIds :
           tasks[t].live => tasks'[t].live /\ tasks'[t].project = tasks[t].project ]_vars

\* An updateTask has moved a task of project 2 under another task of project
\* 2 while project 1 holds a task too.
C15_Witness ==
  /\ last.op = "updateTask" /\ last.res = "200" /\ last.pid = 2
  /\ last.par # NoStr
  /\ tasks[Cast(last.tid)].parentTask = Cast(last.par)
  /\ tasks[Cast(last.tid)].project = 2
  /\ Cast(last.par) # Cast(last.tid)
  /\ \E t \in TaskIds : tasks[t].live /\ tasks[t].project = 1

\* C16: a createTask whose parentTaskId names no task, or a task of another
\* project, is answered 400 and leaves the store as it was: no task is
\* created and no task changes.
C16_CreateBadParent ==
  [][ (/\ last'.op = "createTask"
       /\ last'.role # "none"
       /\ last'.par # NoStr
       /\ ~FoundIn(tasks, Cast(last'.par), last'.pid))
      => /\ last'.res = "400 Parent task not found"
         /\ tasks' = tasks
         /\ nextTask' = nextTask
         /\ projects' = projects ]_vars

\* A createTask in one project naming a task of the other project as parent
\* was answered 400.
C16_Witness ==
  /\ last.op = "createTask"
  /\ last.res = "400 Parent task not found"
  /\ Found(tasks, Cast(last.par))
  /\ tasks[Cast(last.par)].project # last.pid
  /\ \E t \in TaskIds : tasks[t].live /\ tasks[t].project = last.pid

\* ------------------------------------------------------------- reorder
\* The tasks a list of ids names.
Listed(taskIds) == {Cast(taskIds[i]) : i \in 1..Len(taskIds)}

CommentsKept ==
  \A t \in TaskIds :
    tasks'[t].live =>
      \/ tasks'[t].comments = tasks[t].comments
      \/ /\ last'.op = "addComment"
         /\ Cast(last'.tid) = t
         /\ Len(tasks'[t].comments) = Len(tasks[t].comments) + 1
         /\ SubSeq(tasks'[t].comments, 1, Len(tasks[t].comments)) = tasks[t].comments
         /\ tasks'[t].comments[Len(tasks'[t].comments)].user = last'.caller

\* C18: an addComment answered 200 leaves the task's comments as the previous
\* list followed by one comment whose author is the caller and whose text is
\* the text of the request, and no request removes, reorders or alters a
\* comment of a task that stays in the store.
C18_CommentsAppendOnly ==
  [][ /\ (last'.op = "addComment" /\ last'.res = "200") =>
           tasks'[Cast(last'.tid)].comments =
             Append(tasks[Cast(last'.tid)].comments,
                    [user |-> last'.caller, content |-> last'.text])
      /\ CommentsKept ]_vars

\* C18 with the text as the handler stores it: an addComment answered 200
\* appends one comment whose author is the caller and whose text is the text
\* of the request without its leading and trailing white space; no request
\* removes, reorders or alters a comment of a task that stays in the store.
C18_CommentsAppendTrimmed ==
  [][ /\ (last'.op = "addComment" /\ last'.res = "200") =>
           tasks'[Cast(last'.tid)].comments =
             Append(tasks[Cast(last'.tid)].comments,
                    [user |-> last'.caller, content |-> Trim(last'.text)])
      /\ CommentsKept ]_vars

\* A second comment, sent with white space around its text, follows the
\* first one on a task, by another author.
C18_Witness ==
  /\ last.op = "addComment" /\ last.res = "200"
  /\ last.text # Trim(last.text)
  /\ Len(tasks[Cast(last.tid)].comments) = 2
  /\ tasks[Cast(last.tid)].comments[2].user = last.caller
  /\ tasks[Cast(last.tid)].comments[1].user # last.caller


\* ------------------------------------------------------ C19, C20: filters
Criteria == {"status", "dateRange", "search"}

\* The filters with one criterion kept and the others cleared.
Only(f, c) ==
  [status |-> IF c = "status" THEN f.status ELSE "",
   startDate |-> IF c = "dateRange" THEN f.startDate ELSE << >>,
   endDate |-> IF c = "dateRange" THEN f.endDate ELSE << >>,
   search |-> IF c = "search" THEN f.search ELSE << >>]

InList(list, id) == \E k \in 1..Len(list) : list[k].id = id

\* C19: on the project page the filter gives a result, each criterion of
\* the filters applied alone gives a result, the filtered tasks are exactly
\* the fetched tasks that are in every one of these results, in the fetched
\* order, and with no criterion set they are the fetched tasks unchanged.
C19_FilterIntersection ==
  /\ ~view.crashed
  /\ \A c \in Criteria : ~FilteredTasks(view.tasks, Only(view.filters, c)).threw
  /\ view.filteredTasks =
       SelectSeq(view.tasks, LAMBDA t : \A c \in Criteria :
                   InList(FilteredTasks(view.tasks, Only(view.filters, c)).list, t.id))
  /\ view.filters = NoFilters => view.filteredTasks = view.tasks

\* Whether the day of an optional due date lies within the optional bounds;
\* no due date is within any bounds.
InRange(due, sd, ed) ==
  \/ due = << >>
  \/ /\ sd # << >> => sd[1] <= due[1].day
     /\ ed # << >> => due[1].day <= ed[1]

\* C20: a listTasks answered 200 returns a task iff the same query without
\* its date bounds returns it and the task has no dueDate or the day of its
\* dueDate lies within the inclusive bounds of the query.
C20_DateRangeQuery ==
  (last.op = "listTasks" /\ last.res = "200") =>
    \A i \in TaskIds :
      InList(last.result, i) <=>
        /\ InList(ListTasksBody(tasks, last.pid,
                     [last.query EXCEPT !.startDate = << >>, !.endDate = << >>]), i)
        /\ InRange(tasks[i].dueDate, last.query.startDate, last.query.endDate)

\* The same rule on the project page: a fetched task is among the filtered
\* tasks iff the filters without the date bounds keep it and its due date is
\* within the bounds.
C20_DateRangePage ==
  (~view.crashed /\ ~FilteredTasks(view.tasks, [view.filters EXCEPT !.startDate = << >>,
                                                   !.endDate = << >>]).threw) =>
    \A k \in 1..Len(view.tasks) :
      InList(view.filteredTasks, view.tasks[k].id) <=>
        /\ InList(FilteredTasks(view.tasks, [view.filters EXCEPT !.startDate = << >>,
                                               !.endDate = << >>]).list, view.tasks[k].id)
        /\ InRange(view.tasks[k].dueDate, view.filters.startDate, view.filters.endDate)


\* --------------------------------------------------- C21, C22: listTasks
ResultIds(list) == {list[k].id : k \in 1..Len(list)}

\* C21: a listTasks answered 200 whose parentTaskId names an existing task X
\* of the project returns exactly the tasks of the project whose parentTask
\* is X and that satisfy the rest of the query; with parentTaskId 'null' it
\* returns exactly the root tasks that satisfy the rest of the query.
C21_ListByParent ==
  (/\ last.op = "listTasks" /\ last.res = "200"
   /\ last.query.parentTaskId # NoStr
   /\ \/ last.query.parentTaskId[2] = "null"
      \/ /\ Cast(last.query.parentTaskId) \in DOMAIN tasks
         /\ tasks[Cast(last.query.parentTaskId)].live
         /\ tasks[Cast(last.query.parentTaskId)].project = last.pid) =>
    ResultIds(last.result) =
      {i \in DOMAIN tasks :
         /\ QueryMatches(tasks[i], last.pid, [last.query EXCEPT !.parentTaskId = NoStr])
         /\ tasks[i].parentTask = (IF last.query.parentTaskId[2] = "null" THEN 0
                                   ELSE Cast(last.query.parentTaskId))}

\* Every task document of a response, at any level of subTasks.
RECURSIVE NodesOf(_)
NodesOf(list) ==
  IF list = << >> THEN {}
  ELSE {Head(list)} \cup NodesOf(Head(list).subTasks) \cup NodesOf(Tail(list))

\* C22: a listTasks without query parameters answered 200 returns exactly the
\* root tasks of the project, and every other task of the project is in the
\* subTasks of a document of the response that is its parent.
C22_WholeTree ==
  (last.op = "listTasks" /\ last.res = "200" /\ last.query = NoQuery) =>
    /\ ResultIds(last.result) =
         {i \in DOMAIN tasks : /\ tasks[i].live /\ tasks[i].project = last.pid
                               /\ tasks[i].parentTask = 0}
    /\ \A i \in DOMAIN tasks :
         (tasks[i].live /\ tasks[i].project = last.pid /\ tasks[i].parentTask # 0) =>
           \E n \in NodesOf(last.result) :
              n.id = tasks[i].parentTask /\ InList(n.subTasks, i)


\* ------------------------------------------------------- C23: order
\* C23: a createTask answered 201 with an order in the body stores exactly
\* that order; without one it stores an order greater than the order of
\* every task that then has the same project and the same parentTask.
C23_CreateOrder ==
  [][(last'.op = "createTask" /\ last'.res = "201") =>
       LET t == Cast(last'.tid) IN
       /\ last'.order # << >> => tasks'[t].order = last'.order[1]
       /\ last'.order = << >> =>
            \A s \in TaskIds \ {t} :
              (/\ tasks'[s].live /\ tasks'[s].project = tasks'[t].project
               /\ tasks'[s].parentTask = tasks'[t].parentTask) =>
                 tasks'[s].order < tasks'[t].order]_vars


\* ------------------------------------------------- C24: drag-and-drop
\* The task status that a column of the board shows.
ColumnStatus(c) ==
  CASE c = "to_do" -> "To Do" [] c = "in_progress" -> "In Progress" [] c = "done" -> "Done"

\* C24: after a task is dropped on a column, the stored task has the status
\* of that column, one of the three task statuses, and no other root task of
\* its project with that status has a greater order.
C24_DropSetsStatusAndOrder ==
  [][last'.op = "dropTask" =>
       LET t == Cast(last'.tid) IN
       /\ tasks'[t].status = ColumnStatus(last'.st)
       /\ tasks'[t].status \in Statuses
       /\ \A s \in TaskIds \ {t} :
            (/\ tasks'[s].live /\ tasks'[s].project = tasks'[t].project
             /\ tasks'[s].parentTask = 0 /\ tasks'[s].status = tasks'[t].status) =>
               tasks'[s].order <= tasks'[t].order]_vars


\* ------------------------------------------------ C25: the upward walk
\* C25: a createTask or addComment that has saved its task answers (the walk
\* of the roll-up ends), and then every ancestor of the saved task has the
\* status that the roll-up computes from its sub-tasks.
C25_RollUpWalk ==
  [][(\/ last'.op = "createTask" /\ last'.tid # NoStr
      \/ last'.op = "addComment" /\ last'.res \in {"200", "hang"}) =>
       /\ last'.res # "hang"
       /\ \A a \in Chain(tasks', Cast(last'.tid)) \ {Cast(last'.tid)} :
            tasks'[a].status = ComputeStatus(tasks', a)]_vars


\* ------------------------------------------- C26: delete against writes
\* C26: whenever no request is in flight, after a createTask or a
\* reparenting updateTask has interleaved with a deleteTask at their store
\* accesses, every task with a parentTask has it among the stored tasks.
C26_NoOrphanAfterRace ==
  (\A r \in {1, 2} : reqs[r].pc = "idle") =>
    \A t \in TaskIds :
      (tasks[t].live /\ tasks[t].parentTask # 0) => Found(tasks, tasks[t].parentTask)


\* ------------------------------------------------- C27: share against share
\* C27: whenever no share request is in flight, after share requests have
\* interleaved at their store accesses, sharedWith of every project holds at
\* most one entry for each user.
C27_OneEntryAfterRace ==
  (\A r \in {1, 2} : reqs[r].pc = "idle") =>
    \A p \in ProjectIds, u \in Users :
      Cardinality(EntriesOf(projects[p].sharedWith, u)) <= 1


\* ------------------------------------------- C28: comments and statuses
\* C28: an addComment leaves every task other than its target as it was and
\* changes nothing of the target but its comments; in particular no status
\* changes, whoever the caller is.
C28_CommentChangesOnlyComments ==
  [][last'.op = "addComment" =>
       \A t \in TaskIds :
         /\ tasks'[t].status = tasks[t].status
         /\ [tasks'[t] EXCEPT !.comments = << >>] = [tasks[t] EXCEPT !.comments = << >>]
         /\ t # Cast(last'.tid) => tasks'[t] = tasks[t]]_vars


\* POST /:projectId/tasks with an _id in the body: the handler spreads the
\* rest of req.body into Task.create, so the document is stored under the
\* given id, and the insert fails on the unique _id index when a task with
\* that id is stored.
CreateTaskWithId(caller, pid, id, par, st) ==
  /\ Cast(id) \in TaskIds /\ Cast(id) < nextTask
  /\ \E g \in {CheckProjectAccess(projects, pid, caller, RouteRole("createTask"))} :
     \E o \in {IF g.res # "next" THEN [tasks |-> tasks, res |-> g.res]
              ELSE LET c == CreateTaskBody(tasks, Cast(id), pid, par, st, << >>) IN
                   IF c.res = "201" /\ Found(tasks, Cast(id))
                     THEN [tasks |-> tasks, res |-> "500"]
                   ELSE [tasks |-> c.tasks, res |-> c.res]} :
        /\ tasks' = o.tasks
        /\ last' = IF g.res # "next" THEN Refused("createTask", caller, pid, g.res)
                   ELSE [NoLast EXCEPT !.op = "createTask", !.caller = caller,
                           !.pid = pid,
                           !.tid = IF o.res = "201" THEN IdToString(Cast(id)) ELSE NoStr,
                           !.par = par, !.st = st, !.res = o.res, !.role = g.role]
  /\ UNCHANGED <<view, projects, nextProject, nextTask, reqs>>

\* Project 1 of u1 shared with u2 as Editor, project 2 of u3: u2 has no
\* access to project 2.  Project 2 holds task 2, created as a sub-task of
\* task 1; task 1 is gone, and task 2 is either gone with it or was left
\* behind by the interleaving of C26.  u2 sends the five task requests to
\* project 1, naming any task; the _id of a create is one that a stored
\* parentTask names.
IsolateInit ==
  /\ projects = [p \in ProjectIds |->
                   IF p = 1 THEN [live |-> TRUE, name |-> "plan", description |-> "",
                                  owner |-> "u1",
                                  sharedWith |-> <<[user |-> "u2", role |-> "Editor"]>>]
                   ELSE IF p = 2 THEN [live |-> TRUE, name |-> "plan", description |-> "",
                                       owner |-> "u3", sharedWith |-> << >>]
                   ELSE NoProject]
  /\ nextProject = 3
  /\ \E left \in BOOLEAN :
       tasks = [t \in TaskIds |->
                  IF t = 2 /\ left
                    THEN [NoTask EXCEPT !.live = TRUE, !.project = 2, !.parentTask = 1]
                  ELSE NoTask]
  /\ nextTask = 3
  /\ reqs = [r \in {1, 2} |-> IdleReq]
  /\ view = NoView
  /\ last = NoLast

\* The ids that the parentTask of a stored task names.
NamedParents(ts) == {ts[c].parentTask : c \in {d \in TaskIds : ts[d].live}} \ {0}

IsolateNext ==
  \/ \E par \in {NoStr} \cup CanonTaskStrings, st \in {"none", "Done"} :
       CreateTask("u2", 1, par, st, << >>)
  \/ \E id \in {IdToString(t) : t \in NamedParents(tasks)} :
       CreateTaskWithId("u2", 1, id, NoStr, "none")
  \/ \E t, par \in CanonTaskStrings : UpdateTask("u2", 1, t, par, "none")
  \/ \E t \in CanonTaskStrings : DeleteTask("u2", 1, t)
  \/ \E b \in CanonTaskStrings : ReorderTasks("u2", 1, <<IdToString(1), b>>)
  \/ \E t \in CanonTaskStrings :
       StoredComments(tasks) = {} /\ AddComment("u2", 1, t, <<"n">>)

SpecIsolate == IsolateInit /\ [][IsolateNext]_vars

\* ------------------------------------------------- C29: owner-only routes
\* C29: every deleteProject, shareProject and unshareProject that succeeds,
\* and every such request that changes the project, comes from the user
\* stored as the owner of the project.
C29_OwnerOnly ==
  [][(/\ last'.op \in {"deleteProject", "shareProject", "unshareProject"}
      /\ last'.res \in {"200", "204"} \/ projects' # projects) =>
       last'.caller = projects[last'.pid].owner]_vars


\* ------------------------------------------- C30: isolation of projects
TaskOps == {"createTask", "updateTask", "deleteTask", "reorderTasks", "addComment"}

\* C30: a task request addressed to project P, with its roll-up and cascade
\* delete, leaves every task of another project as it was and creates tasks
\* in P only, whatever ids the request names.
C30_OtherProjectsUntouched ==
  [][last'.op \in TaskOps =>
       \A t \in TaskIds :
         /\ (tasks[t].live /\ tasks[t].project # last'.pid) => tasks'[t] = tasks[t]
         /\ (~tasks[t].live /\ tasks'[t].live) => tasks'[t].project = last'.pid]_vars

====
